---- MODULE Spec2Model ----
(***************************************************************************)
(* A model of the DNS resolver of ahfc-configuration-rest-ws.              *)
(*                                                                         *)
(*   - ResolverSocket and its two transports (core/dns/io.ts, the part     *)
(*     that holds ResolverSocket.ts): tasks, the outbound queue, the       *)
(*     inbound map, lazily opened sockets, the timeout scan, the deferred  *)
(*     close and the socket event handlers.                                *)
(*   - Resolver.send / Resolver.sendAll (core/dns/Resolver.ts).            *)
(*                                                                         *)
(* A handler is one action.  The methods a handler calls are operators     *)
(* from a record of the mutable state (a "world") to the world they leave  *)
(* behind; an action commits the world its handler ends with.              *)
(***************************************************************************)
EXTENDS Integers, Sequences, FiniteSets, TLC

\* ------------------------------------------------------------------ bounds
NumTasks == 2        \* requests the caller submits in one run
NumIds == 2          \* distinct DNS message ids in use
MaxSockets == 2      \* sockets opened in one run (both transports)
MaxFaults == 1       \* socket 'error' events in one run
MaxScans == 1        \* firings of the timeout-scan timer in one run
MaxRequests == 2     \* requests in the list given to Resolver.sendAll
MaxServers == 2      \* name servers (resolver sockets) of a Resolver
MaxWrites == 2       \* Directory.write calls in one run
MaxOps == 1          \* add and remove calls of one transaction function
MaxEntries == 2      \* entries given to one add call
MaxPaths == 2        \* paths given to one list or remove call
MaxNesting == 1      \* enter() and map() calls that lead to a directory view
MaxTemplates == 2    \* templates in the directory
MaxDocuments == 2    \* documents given to one addDocuments call
MaxPatches == 2      \* Patch.apply calls on one document
MaxConditions == 3   \* conditions of one template field
MaxMessages == 2     \* response messages in one TCP stream
MinMessage == 2      \* bytes of the shortest response message
MaxMessage == 3      \* bytes of the longest response message
MaxReleases == 2     \* commit and abort calls that may throw, of one transaction
MaxCalls == 3        \* builder methods called before build()
NumBuilderIds == 2   \* ids given to UpdateBuilder.id

\* ------------------------------------------------------- program constants
TimeoutInMs == 10000         \* options.timeoutInMs default
ScanDivisor == 20            \* the scan runs every timeoutInMs / 20
UdpLengthLimit == 513        \* requests shorter than this go over UDP
MaxRequestLength == 65535    \* longer requests are RequestTooLong
UdpRetries == 2              \* task.retriesLeft of a UDP task

ScanIntervalMs == TimeoutInMs \div ScanDivisor

Tasks == 1..NumTasks
MsgIds == 1..NumIds
Sockets == 1..MaxSockets
Transports == {"TCP", "UDP"}
OpCodes == {"QUERY", "UPDATE"}
RequestLengths ==
    {UdpLengthLimit - 1, UdpLengthLimit, MaxRequestLength, MaxRequestLength + 1}

NoSocket == 0                \* this.socket === undefined
NotANumber == << >>          \* undefined, and NaN after undefined--
Num(n) == << n >>

\* `r-- > 0`: the value compared is the one before the decrement.
GreaterThanZeroOffByOne(r) == r # NotANumber /\ r[1] >= 0
GreaterThanZero(r) == r # NotANumber /\ r[1] > 0
PostDecrement(r) == IF r = NotANumber THEN NotANumber ELSE Num(r[1] - 1)
\* `timestamp >= task.timestampSent`
GreaterOrEqual(timestamp, sent) == sent # NotANumber /\ timestamp >= sent[1]

\* error instanceof ResolverError ? error.kind : ResolverErrorKind.Other
PlainError == [resolverError |-> FALSE, kind |-> "none"]
SocketErrors == {PlainError}
KindOf(error) == IF error.resolverError THEN error.kind ELSE "Other"

VARIABLES
    mid,            \* task -> request.id (0: the task does not exist yet)
    via,            \* task -> transport it was enqueued on ("none": not enqueued)
    retriesLeft,    \* task -> ResolverSocketTask.retriesLeft
    timestampSent,  \* task -> ResolverSocketTask.timestampSent
    calls,          \* task -> the resolve/reject invocations, in order
    transmissions,  \* task -> number of times its request was written to a socket
    socket,         \* transport -> this.socket
    opened,         \* transport -> this.opened
    inbound,        \* transport -> this.inbound, the tasks in insertion order
    outbound,       \* transport -> this.outbound
    closer,         \* transport -> the deferred-close timeout is armed
    sockState,      \* socket -> "none", "opening", "openingEnded", "unbound",
                    \*           "open", "ended", "closing", "errored", "closed"
    sockOwner,      \* socket -> transport that created it
    nsock,          \* number of sockets created so far
    timerOn,        \* the setInterval timer of the constructor is running
    now,            \* the wall clock, in ms
    faults,         \* number of socket 'error' events so far
    resolver,       \* the state of Resolver.send / Resolver.sendAll
    directory,      \* the LMDB environment of DirectoryLMDB and its transactions
    document,       \* the acml.Document given to Patch.apply
    templateField,  \* a TemplateField and what its validate returned
    stream,         \* the bytes a TCP socket delivers and the receive parser
    message,        \* a dns.Message and the bytes written for it
    transaction     \* one call of Directory.read or Directory.write

socketVars == << mid, via, retriesLeft, timestampSent, calls, transmissions,
                 socket, opened, inbound, outbound, closer, sockState,
                 sockOwner, nsock, timerOn, now, faults >>
appVars == << directory, document, templateField, stream, message,
             transaction >>
vars == << socketVars, resolver, appVars >>

\* The state the handlers' methods read and write.
World ==
    [ mid |-> mid, retriesLeft |-> retriesLeft, timestampSent |-> timestampSent,
      calls |-> calls, transmissions |-> transmissions, socket |-> socket,
      opened |-> opened, inbound |-> inbound, outbound |-> outbound,
      closer |-> closer, sockState |-> sockState, sockOwner |-> sockOwner,
      nsock |-> nsock,
      threw |-> FALSE,      \* an exception is propagating
      inBounds |-> TRUE ]   \* FALSE: the handler needs more than MaxSockets

Commit(w0) ==
    \E w \in {w0} :
        /\ w.inBounds
        /\ mid' = w.mid
        /\ retriesLeft' = w.retriesLeft
        /\ timestampSent' = w.timestampSent
        /\ calls' = w.calls
        /\ transmissions' = w.transmissions
        /\ socket' = w.socket
        /\ opened' = w.opened
        /\ inbound' = w.inbound
        /\ outbound' = w.outbound
        /\ closer' = w.closer
        /\ sockState' = w.sockState
        /\ sockOwner' = w.sockOwner
        /\ nsock' = w.nsock

\* The element of a singleton.  A method is written The({ body : w \in {w0} }):
\* its body with w bound to the value of the world it is called on.
The(S) == CHOOSE r \in S : TRUE

\* ------------------------------------------------------------ Map helpers
\* this.inbound is a Map keyed by request.id that iterates in insertion order.
IndexOfId(w0, tp, id) ==
    The({ (
        LET hits == { i \in 1..Len(w.inbound[tp]) : w.mid[w.inbound[tp][i]] = id }
        IN  IF hits = {} THEN 0 ELSE CHOOSE i \in hits : TRUE
    ) : w \in {w0} })

MapHas(w, tp, id) == IndexOfId(w, tp, id) # 0

RemoveAt(s, i) == SubSeq(s, 1, i - 1) \o SubSeq(s, i + 1, Len(s))

\* Map.set: an existing key keeps its position and gets the new value.
MapSet(w0, tp, t) ==
    The({ (
        LET i == IndexOfId(w, tp, w.mid[t])
        IN  IF i = 0
            THEN [w EXCEPT !.inbound[tp] = Append(@, t)]
            ELSE [w EXCEPT !.inbound[tp][i] = t]
    ) : w \in {w0} })

MapDelete(w0, tp, id) ==
    The({ (
        LET i == IndexOfId(w, tp, id)
        IN  IF i = 0 THEN w ELSE [w EXCEPT !.inbound[tp] = RemoveAt(@, i)]
    ) : w \in {w0} })

\* task.resolve(...) / task.reject(new ResolverError(kind, ...))
Invoke(w0, t, what) ==
    The({ (
        [w EXCEPT !.calls[t] = Append(@, what)]
    ) : w \in {w0} })

\* --------------------------------------------- ResolverSocketTransport
\* openSocket(): a new socket that is connecting (TCP) or binding (UDP).
openSocket(w0, tp) ==
    The({ (
        IF w.nsock >= MaxSockets
        THEN [w EXCEPT !.inBounds = FALSE]
        ELSE LET s == w.nsock + 1
             IN  [w EXCEPT !.nsock = s,
                           !.sockState[s] = "opening",
                           !.sockOwner[s] = tp,
                           !.socket[tp] = s]
    ) : w \in {w0} })

\* net.Socket.end(): the close event follows once the connection is shut down.
EndSocket(w0, s) ==
    The({ (
        IF w.sockState[s] = "opening" THEN [w EXCEPT !.sockState[s] = "openingEnded"]
        ELSE IF w.sockState[s] = "open" THEN [w EXCEPT !.sockState[s] = "ended"]
        ELSE w
    ) : w \in {w0} })

\* dgram.Socket.close(): throws when the socket is not running any more; the
\* close event is emitted on the next tick.
CloseDgram(w0, s) ==
    The({ (
        IF w.sockState[s] \in {"opening", "unbound", "open"}
        THEN [w EXCEPT !.sockState[s] = "closing"]
        ELSE [w EXCEPT !.threw = TRUE]
    ) : w \in {w0} })

\* closeSocket(socket)
closeSocket(w0, tp, s) ==
    The({ (
        IF s = NoSocket THEN w
        ELSE IF tp = "TCP" THEN EndSocket(w, s)
        ELSE CloseDgram(w, s)
    ) : w \in {w0} })

\* close()
close(w0, tp) ==
    The({ (
        closeSocket(w, tp, w.socket[tp])
    ) : w \in {w0} })

\* deferCloseIfNoInboundsOrOutbounds(): (re)arms the closer timeout.
deferCloseIfNoInboundsOrOutbounds(w0, tp) ==
    The({ (
        [w EXCEPT !.closer[tp] = TRUE]
    ) : w \in {w0} })

\* send(socket, request) for every task of the outbound queue, in order.
\* dgram.Socket.send throws on a socket that was closed; net.Socket.write on
\* an ended socket reports its error through an 'error' event instead.
RECURSIVE flush(_, _, _, _)
flush(w0, tp, i, timestamp) ==
    The({ (
        IF i > Len(w.outbound[tp]) THEN [w EXCEPT !.outbound[tp] = << >>]
        ELSE LET t == w.outbound[tp][i]
                 s == w.socket[tp]
             IN  IF tp = "UDP" /\ w.sockState[s] \in {"closing", "closed"}
                 THEN [w EXCEPT !.threw = TRUE]
                 ELSE flush(MapSet([w EXCEPT !.transmissions[t] = @ + 1,
                                             !.timestampSent[t] = Num(timestamp)],
                                   tp, t),
                            tp, i + 1, timestamp)
    ) : w \in {w0} })

\* poll()
poll(w0, tp, timestamp) ==
    The({ (
        IF Len(w.outbound[tp]) = 0 THEN w
        ELSE IF w.socket[tp] = NoSocket THEN openSocket(w, tp)
        ELSE IF ~w.opened[tp] THEN w
        ELSE LET sent == flush(w, tp, 1, timestamp)
             IN  IF sent.threw THEN sent
                 ELSE deferCloseIfNoInboundsOrOutbounds(sent, tp)
    ) : w \in {w0} })

\* enqueue(task)
enqueue(w0, tp, t, timestamp) ==
    The({ (
        IF MapHas(w, tp, w.mid[t])
        THEN Invoke(w, t, "RequestIDInUse")
        ELSE poll([w EXCEPT !.outbound[tp] = Append(@, t)], tp, timestamp)
    ) : w \in {w0} })

\* onClosed(reopen)
onClosed(w0, tp, reopen, timestamp) ==
    The({ (
        LET shut == [w EXCEPT !.opened[tp] = FALSE, !.socket[tp] = NoSocket]
        IN  IF ~reopen THEN shut
            ELSE LET moved == [shut EXCEPT !.outbound[tp] = @ \o shut.inbound[tp],
                                           !.inbound[tp] = << >>]
                 IN  IF Len(moved.outbound[tp]) > 0
                     THEN poll(moved, tp, timestamp)
                     ELSE moved
    ) : w \in {w0} })

\* onOpened()
onOpened(w0, tp, timestamp) ==
    The({ (
        poll([w EXCEPT !.opened[tp] = TRUE], tp, timestamp)
    ) : w \in {w0} })

\* onMessageReceived(response); a response nobody waits for only goes to
\* options.onUnhandledError.
onMessageReceived(w0, tp, id) ==
    The({ (
        LET i == IndexOfId(w, tp, id)
        IN  IF i = 0 THEN w
            ELSE Invoke(MapDelete(w, tp, id), w.inbound[tp][i], "resolve")
    ) : w \in {w0} })

\* rejectAllTasksWith(kind, cause).  The inner function reject(task) is called
\* without a receiver, so its `this.inbound.delete(...)` throws a TypeError
\* right after the first task.reject(...): the first task of the inbound map
\* (of the outbound queue when the map is empty) is rejected, no task is
\* removed and the exception propagates to the caller.
rejectAllTasksWith(w0, tp, kind) ==
    The({ (
        LET all == w.inbound[tp] \o w.outbound[tp]
        IN  IF Len(all) = 0 THEN w
            ELSE [Invoke(w, all[1], kind) EXCEPT !.threw = TRUE]
    ) : w \in {w0} })

\* The onError closure of the ResolverSocket constructor.
onError(w0, error) ==
    The({ (
        LET tcp == rejectAllTasksWith(w, "TCP", KindOf(error))
        IN  IF tcp.threw THEN tcp
            ELSE rejectAllTasksWith(tcp, "UDP", KindOf(error))
    ) : w \in {w0} })

\* The onTimeout closure of the ResolverSocket constructor.
onTimeout(w0) ==
    The({ (
        rejectAllTasksWith(w, "TCP", "RequestUnanswered")
    ) : w \in {w0} })

\* this.onUnrecoverableError, as wrapped by the transport's constructor.
onUnrecoverableError(w0, tp, error, timestamp) ==
    The({ (
        LET shut == onClosed(w, tp, FALSE, timestamp)
            own == rejectAllTasksWith(shut, tp, KindOf(error))
        IN  IF own.threw THEN own ELSE onError(own, error)
    ) : w \in {w0} })

\* The closer timeout closing the socket whatever is queued or in flight.
closeWhateverIsQueued(w0, tp) ==
    The({ (
        close([w EXCEPT !.closer[tp] = FALSE], tp)
    ) : w \in {w0} })

\* closeIfNoInboundsOrOutbounds(), as called by the closer timeout: the
\* timeout is armed again when a task is queued or in flight.
closeIfNoInboundsOrOutbounds(w0, tp) ==
    The({ (
        IF Len(w.inbound[tp]) = 0 /\ Len(w.outbound[tp]) = 0
        THEN close([w EXCEPT !.closer[tp] = FALSE], tp)
        ELSE deferCloseIfNoInboundsOrOutbounds(w, tp)
    ) : w \in {w0} })

\* retryOrTimeoutInboundsOlderThan(timestamp).  The for..of loop runs over the
\* live Map: a deleted entry is skipped and an entry set during the loop is
\* visited by the same loop.  pollTime is what the clock reads in poll().
RECURSIVE scanFrom(_, _, _, _, _)
scanFrom(w0, tp, i, timestamp, pollTime) ==
    The({ (
        IF w.threw \/ ~w.inBounds \/ i > Len(w.inbound[tp]) THEN w
        ELSE LET t == w.inbound[tp][i]
             IN  IF GreaterOrEqual(timestamp, w.timestampSent[t])
                 THEN LET before == w.retriesLeft[t]
                          popped == [w EXCEPT !.inbound[tp] = RemoveAt(@, i),
                                              !.retriesLeft[t] = PostDecrement(before)]
                          next == IF GreaterThanZero(before)
                                  THEN enqueue(popped, tp, t, pollTime)
                                  ELSE Invoke(popped, t, "RequestUnanswered")
                      IN  scanFrom(next, tp, i, timestamp, pollTime)
                 ELSE scanFrom(w, tp, i + 1, timestamp, pollTime)
    ) : w \in {w0} })

retryOrTimeoutInboundsOlderThan(w0, tp, timestamp, pollTime) ==
    The({ (
        scanFrom(w, tp, 1, timestamp, pollTime)
    ) : w \in {w0} })

\* ------------------------------------------------------------- the handlers
\* An exception that leaves an event handler or a timer callback is uncaught.
\* The handler stops where the exception is thrown; the process goes on when
\* the host application handles uncaught exceptions and dies otherwise, and
\* the behaviours of a process that dies are the prefixes of the behaviours
\* here.

\* A dgram 'close' event is emitted on the next tick, before any other event
\* or timer; only synchronous calls of the API can come before it.
NoTickPending == \A s \in Sockets : sockState[s] # "closing"

TransportFor(length, opcode) ==
    IF length < UdpLengthLimit /\ opcode # "UPDATE" THEN "UDP" ELSE "TCP"

\* ResolverSocket.send(request): the executor of the returned promise.  An
\* exception in the executor rejects the promise.
Send(t, id, length, opcode) ==
    /\ mid[t] = 0
    /\ \A u \in Tasks : u < t => mid[u] # 0
    /\ \A i \in MsgIds : i < id => \E u \in Tasks : mid[u] = i
    /\ LET born == [World EXCEPT !.mid[t] = id]
           tp == TransportFor(length, opcode)
       IN  IF length > MaxRequestLength
           THEN /\ Commit(Invoke(born, t, "RequestTooLong"))
                /\ via' = via
           ELSE LET task == [born EXCEPT !.retriesLeft[t] =
                                 IF tp = "UDP" THEN Num(UdpRetries) ELSE NotANumber]
                    done == enqueue(task, tp, t, now)
                IN  /\ Commit(IF done.threw THEN Invoke(done, t, "Thrown") ELSE done)
                    /\ via' = [via EXCEPT ![t] = tp]
    /\ UNCHANGED << timerOn, now, faults, resolver, appVars >>

\* ResolverSocket.close()
Close ==
    /\ LET tcp == close(World, "TCP")
       IN  Commit(IF tcp.threw THEN tcp ELSE close(tcp, "UDP"))
    /\ timerOn' = FALSE
    /\ UNCHANGED << via, now, faults, resolver, appVars >>

\* The setInterval callback of the constructor.  The timer has run for one
\* more period; the clock may or may not move on between the callback's read
\* and the reads of poll().
Scan(sameMs) ==
    /\ timerOn /\ NoTickPending
    /\ now \div ScanIntervalMs < MaxScans
    /\ LET timestamp == now + ScanIntervalMs
           pollTime == IF sameMs THEN timestamp ELSE timestamp + 1
           tcp == retryOrTimeoutInboundsOlderThan(World, "TCP", timestamp, pollTime)
       IN  \E udp \in {retryOrTimeoutInboundsOlderThan(tcp, "UDP", timestamp, pollTime)} :
               LET polled == udp.timestampSent # timestampSent
               IN  /\ sameMs \/ polled
                   /\ Commit(udp)
                   /\ now' = IF polled THEN pollTime ELSE timestamp
    /\ UNCHANGED << via, timerOn, faults, resolver, appVars >>

\* The closer timeout of deferCloseIfNoInboundsOrOutbounds fires.
CloserFires(tp) ==
    /\ NoTickPending
    /\ closer[tp]
    /\ LET done == closeIfNoInboundsOrOutbounds(World, tp)
       IN  Commit(done)
    /\ UNCHANGED << via, timerOn, now, faults, resolver, appVars >>

\* 'connect' (TCP) or 'listening' (UDP) of socket s.
Opened(s) ==
    /\ NoTickPending
    /\ sockState[s] \in {"opening", "openingEnded"}
    /\ LET up == [World EXCEPT !.sockState[s] =
                      IF sockState[s] = "opening" THEN "open" ELSE "ended"]
           done == onOpened(up, sockOwner[s], now)
       IN  Commit(done)
    /\ UNCHANGED << via, timerOn, now, faults, resolver, appVars >>

\* A well-formed response with the given id arrives on socket s.
Receive(s, id) ==
    /\ NoTickPending
    /\ sockState[s] \in {"open", "ended"}
    /\ Commit(onMessageReceived(World, sockOwner[s], id))
    /\ UNCHANGED << via, timerOn, now, faults, resolver, appVars >>

\* Socket s emits 'error'.  A TCP socket is destroyed by its error and reports
\* 'close' with hadError; a UDP socket that fails to bind never listens, and
\* the UDP handler closes the socket itself, after onUnrecoverableError has
\* returned.
SocketError(s, error) ==
    /\ NoTickPending
    /\ faults < MaxFaults
    /\ sockState[s] \in {"opening", "openingEnded", "open", "ended"}
    /\ LET tp == sockOwner[s]
           down == [World EXCEPT !.sockState[s] =
                       IF tp = "TCP" THEN "errored"
                       ELSE IF @ = "opening" THEN "unbound"
                       ELSE @]
           failed == onUnrecoverableError(down, tp, error, now)
           done == IF tp = "UDP" /\ ~failed.threw
                   THEN CloseDgram(failed, s)
                   ELSE failed
       IN  Commit(done)
    /\ faults' = faults + 1
    /\ UNCHANGED << via, timerOn, now, resolver, appVars >>

\* A datagram that Message.read cannot parse: the UDP 'message' handler
\* catches the exception and calls onUnrecoverableError; the socket stays.
MalformedDatagram(s, error) ==
    /\ NoTickPending
    /\ faults < MaxFaults
    /\ sockOwner[s] = "UDP"
    /\ sockState[s] = "open"
    /\ LET done == onUnrecoverableError(World, "UDP", error, now)
       IN  Commit(done)
    /\ faults' = faults + 1
    /\ UNCHANGED << via, timerOn, now, resolver, appVars >>

\* The TCP socket s has been idle for timeoutInMs: 'timeout'.  A request
\* written to the socket ends its silence, and while the scan timer runs every
\* request in flight was written less than one scan period ago (the scan
\* takes every older one out of the inbound map), which is less than
\* timeoutInMs: with the timer running the socket is only silent for that
\* long when nothing is in flight on it.
TcpTimeout(s) ==
    /\ NoTickPending
    /\ timerOn => Len(inbound["TCP"]) = 0
    /\ sockOwner[s] = "TCP"
    /\ sockState[s] \in {"opening", "open"}
    /\ LET done == onTimeout(EndSocket(World, s))
       IN  Commit(done)
    /\ UNCHANGED << via, timerOn, now, faults, resolver, appVars >>

\* 'close' of socket s: after end() or an error (TCP), after close() (UDP).
Closed(s) ==
    /\ \/ sockState[s] = "closing"
       \/ NoTickPending /\ sockState[s] \in {"ended", "errored"}
    /\ LET hadError == sockState[s] = "errored"
           tp == sockOwner[s]
           gone == [World EXCEPT !.sockState[s] = "closed"]
           done == onClosed(gone, tp, tp = "TCP" /\ ~hadError, now)
       IN  Commit(done)
    /\ UNCHANGED << via, timerOn, now, faults, resolver, appVars >>

\* ------------------------------------------------------------ the Resolver
\* What sockets[i].send(request) can come back with.
Answers == {"NOERROR", "BadRCode", "BadOpCode", "Rejected"}
Requests == 1..MaxRequests

ResolverIdle(servers) ==
    [ phase |-> "idle",                       \* sendAll has not been called
      servers |-> servers,                    \* this.sockets.length
      n |-> 0,                                \* requests.length
      socketIndex |-> [r \in Requests |-> 0], \* socketIndex of send(request)
      error |-> [r \in Requests |-> "none"],  \* error of send(request)
      state |-> [r \in Requests |-> "none"],  \* the promise of send(request)
      countdown |-> 0,
      successes |-> 0,
      results |-> << >>,
      outcome |-> "pending" ]                 \* the promise of sendAll

\* tryNextSocket() of Resolver.send, for request r.
tryNextSocket(rs, r) ==
    IF rs.socketIndex[r] >= rs.servers
    THEN [rs EXCEPT !.error[r] = IF @ = "none" THEN "NoKnownNameServers" ELSE @,
                    !.state[r] = "rejected"]
    ELSE [rs EXCEPT !.socketIndex[r] = @ + 1, !.state[r] = "waiting"]

\* Resolver.send(request) for the requests r..n, in order.
RECURSIVE sendFrom(_, _)
sendFrom(rs, r) ==
    IF r > rs.n THEN rs ELSE sendFrom(tryNextSocket(rs, r), r + 1)

\* Resolver.sendAll(requests): the executor of the returned promise.
SendAll(n) ==
    /\ resolver.phase = "idle"
    /\ resolver' = sendFrom([resolver EXCEPT !.phase = "called", !.n = n,
                                             !.countdown = n], 1)
    /\ UNCHANGED << socketVars, appVars >>

\* The promise of sockets[socketIndex - 1].send(request) settles: the
\* callbacks given to then() in Resolver.send.
SocketAnswers(r, answer) ==
    /\ resolver.phase = "called"
    /\ r <= resolver.n
    /\ resolver.state[r] = "waiting"
    /\ resolver' =
         IF answer = "Rejected"
         THEN tryNextSocket([resolver EXCEPT !.error[r] = "RequestUnanswered"], r)
         ELSE IF answer = "BadRCode"
         THEN tryNextSocket([resolver EXCEPT !.error[r] = "ResponseBad"], r)
         ELSE IF answer = "BadOpCode"
         THEN tryNextSocket([resolver EXCEPT !.error[r] = "ResponseNotExpected"], r)
         ELSE [resolver EXCEPT !.state[r] = "resolved"]
    /\ UNCHANGED << socketVars, appVars >>

\* The callbacks given to then() in sendAll, and push(result).
Push(r) ==
    /\ resolver.phase = "called"
    /\ r <= resolver.n
    /\ resolver.state[r] \in {"resolved", "rejected"}
    /\ LET ok == resolver.state[r] = "resolved"
           counted == [resolver EXCEPT
                          !.successes = IF ok THEN @ + 1 ELSE @,
                          !.results = Append(@, [request |-> r, ok |-> ok]),
                          !.countdown = @ - 1,
                          !.state[r] = "pushed"]
       IN  resolver' =
             IF counted.countdown # 0 THEN counted
             ELSE IF counted.successes = 0
             THEN [counted EXCEPT !.outcome = "rejected"]
             ELSE [counted EXCEPT !.outcome = "resolved"]
    /\ UNCHANGED << socketVars, appVars >>

\* ServiceDiscoveryDNSSD.publish(record): one UPDATE per registration domain is
\* handed to Resolver.sendAll, and then(respones => undefined) passes the
\* outcome of sendAll on.
publish == resolver.outcome

\* ----------------------------------------------------------- util/dpath
\* String.prototype.endsWith / startsWith
endsWith(s, suffix) ==
    Len(suffix) <= Len(s) /\ SubSeq(s, Len(s) - Len(suffix) + 1, Len(s)) = suffix
startsWith(s, start) ==
    Len(start) <= Len(s) /\ SubSeq(s, 1, Len(start)) = start

normalize(path) == (IF startsWith(path, ".") THEN "" ELSE ".") \o path
join(a, b) == a \o normalize(b)
prefix(dir, paths) == [i \in 1..Len(paths) |-> join(dir, paths[i])]

\* The order of strings by code unit: the order of Array.prototype.sort and
\* of the keys of an LMDB database.
CharCode(c) ==
    CASE c = "." -> 46 [] c = "a" -> 97 [] c = "b" -> 98 [] c = "d" -> 100
      [] c = "t" -> 116 [] c = "x" -> 120 [] c = "y" -> 121
RECURSIVE Less(_, _)
Less(a, b) ==
    IF Len(b) = 0 THEN FALSE
    ELSE IF Len(a) = 0 THEN TRUE
    ELSE LET x == CharCode(SubSeq(a, 1, 1))
             y == CharCode(SubSeq(b, 1, 1))
         IN  IF x # y THEN x < y
             ELSE Less(SubSeq(a, 2, Len(a)), SubSeq(b, 2, Len(b)))

\* ------------------------------------------------------------- node-lmdb
\* A database is a function from its keys to their values.
NoEntries == << >>
NoKey == ""                  \* the null a cursor returns at the end
putBinary(store, key, value) ==
    [k \in DOMAIN store \cup {key} |-> IF k = key THEN value ELSE store[k]]
del(store, key) == [k \in DOMAIN store \ {key} |-> store[k]]

Least(keys) ==
    IF keys = {} THEN NoKey
    ELSE CHOOSE k \in keys : \A other \in keys : ~Less(other, k)
\* cursor.goToRange(path): the first key that is not less than path.
goToRange(store, path) == Least({ k \in DOMAIN store : ~Less(k, path) })
\* cursor.goToNext(): the first key after the cursor's; after cursor.del()
\* that is the key that followed the deleted one.
goToNext(store, key) == Least({ k \in DOMAIN store : Less(key, k) })

\* --------------------------------------------------------- DirectoryLMDB
\* filterOverlappingPaths(paths): the for loop from index i on.  After a
\* partially qualified path the while loop stops at the first path that does
\* not start with it, and the ++i of the for loop then steps over that path.
RECURSIVE skipOverlapping(_, _, _)
skipOverlapping(paths, i, start) ==
    IF i <= Len(paths) /\ paths[i] # "" /\ startsWith(paths[i], start)
    THEN skipOverlapping(paths, i + 1, start)
    ELSE i

RECURSIVE filterFrom(_, _, _)
filterFrom(paths, i, result) ==
    IF i > Len(paths) THEN result
    ELSE IF endsWith(paths[i], ".")
    THEN filterFrom(paths, skipOverlapping(paths, i + 1, paths[i]) + 1,
                    Append(result, paths[i]))
    ELSE filterFrom(paths, i + 1, Append(result, paths[i]))

filterOverlappingPaths(paths) == filterFrom(SortSeq(paths, Less), 1, << >>)

\* The callback f of visitEachMatch: list() pushes the entry under the
\* cursor, remove() deletes it.
Visit(v, key, removing) ==
    [ store |-> IF removing THEN del(v.store, key) ELSE v.store,
      visited |-> Append(v.visited, key) ]

RECURSIVE visitWhile(_, _, _, _)
visitWhile(v, path, key, removing) ==
    IF key # NoKey /\ startsWith(key, path)
    THEN LET next == Visit(v, key, removing)
         IN  visitWhile(next, path, goToNext(next.store, key), removing)
    ELSE v

visitPath(v, path0, removing) ==
    LET path == IF startsWith(path0, ".") THEN path0 ELSE "." \o path0
        key == goToRange(v.store, path)
    IN  IF endsWith(path, ".") THEN visitWhile(v, path, key, removing)
        ELSE IF key = path THEN Visit(v, key, removing)
        ELSE v

RECURSIVE visitFrom(_, _, _, _)
visitFrom(v, paths, i, removing) ==
    IF i > Len(paths) THEN v
    ELSE visitFrom(visitPath(v, paths[i], removing), paths, i + 1, removing)

visitEachMatch(paths, store, removing) ==
    LET v == [store |-> store, visited |-> << >>]
    IN  IF Len(paths) = 0 THEN v
        ELSE visitFrom(v, filterOverlappingPaths(paths), 1, removing)

\* DirectoryReaderLMDB.list(paths): the paths of the entries it resolves with.
list(dir, paths, store) == visitEachMatch(prefix(dir, paths), store, FALSE).visited

\* DirectoryWriterLMDB.remove(paths): the entries left in the transaction.
remove(dir, paths, store) == visitEachMatch(prefix(dir, paths), store, TRUE).store

\* DirectoryWriterLMDB.add(entries): the for loop from entry i on.  ok is
\* FALSE when the loop threw and the promise of add is rejected.
RECURSIVE addFrom(_, _, _, _)
addFrom(dir, entries, i, store) ==
    IF i > Len(entries) THEN [store |-> store, ok |-> TRUE]
    ELSE IF endsWith(entries[i].path, ".") THEN [store |-> store, ok |-> FALSE]
    ELSE addFrom(dir, entries, i + 1,
                 putBinary(store, join(dir, entries[i].path), entries[i].value))

add(dir, entries, store) == addFrom(dir, entries, 1, store)

\* A directory object: the prefix of a DirectoryLMDB and the number of
\* DirectoryTransformers wrapped around it.  The entries and paths a
\* transformer is given reach the wrapped directory through the caller's
\* writer function; the entries below are the ones that reach DirectoryLMDB.
Root == [dir |-> "", layers |-> 0]
enter(h, name) == [h EXCEPT !.dir = join(@, name)]
map(h) == [h EXCEPT !.layers = @ + 1]

DirectoryNames == {"a"}
RECURSIVE HandlesWithin(_)
HandlesWithin(depth) ==
    IF depth = 0 THEN {Root}
    ELSE LET inner == HandlesWithin(depth - 1)
         IN  inner \cup { map(h) : h \in inner }
                   \cup { enter(h, name) : h \in inner, name \in DirectoryNames }
Handles == HandlesWithin(MaxNesting)

\* close(): a DirectoryTransformer closes the directory it wraps, a
\* DirectoryLMDB closes the environment when its prefix is the empty string.
RECURSIVE closeDirectory(_, _)
closeDirectory(d, h) ==
    IF h.layers > 0 THEN closeDirectory(d, [h EXCEPT !.layers = @ - 1])
    ELSE IF h.dir = "" THEN [d EXCEPT !.open = FALSE]
    ELSE d

Callers == 1..MaxWrites
NoTxn == [state |-> "none", dir |-> "", work |-> NoEntries, ops |-> 0]
NoCall == [op |-> "none", dir |-> "", paths |-> << >>, before |-> {},
           result |-> << >>]

\* DirectoryLMDB.open(path)
DirectoryOpened ==
    [ open |-> TRUE,                      \* the environment is open
      hung |-> FALSE,                     \* the thread waits for the writer lock
      data |-> NoEntries,                 \* the committed entries
      txn |-> [c \in Callers |-> NoTxn],  \* the write(fn) calls
      last |-> NoCall ]                   \* the last read(fn) or write(fn) that
                                          \* ran to its end in one turn

\* LMDB has one writer lock: env.beginTxn() for a write transaction finds it
\* taken while another write transaction is open.
WriterBusyNever(d) == FALSE
WriterBusy(d) == \E c \in Callers : d.txn[c].state = "open"

\* txn.commit() and txn.abort()
abortKeepingWrites(d, c) ==
    [d EXCEPT !.data = d.txn[c].work,
              !.txn[c].state = "aborted", !.txn[c].work = NoEntries]
abort(d, c) ==
    [d EXCEPT !.txn[c].state = "aborted", !.txn[c].work = NoEntries]
commit(d, c) ==
    [d EXCEPT !.data = d.txn[c].work,
              !.txn[c].state = "committed", !.txn[c].work = NoEntries]

PathInputs == {"", "a", ".a", "a.", "aa"}
PathLists(n) == UNION { [1..k -> PathInputs] : k \in 0..n }
\* The value an add stores names the write call that stored it.
Entries(paths, c) == [i \in 1..Len(paths) |-> [path |-> paths[i], value |-> c]]

AppIdle == directory.open /\ ~directory.hung

\* h.write(fn): env.beginTxn({ readOnly: false }) and the call of fn.  With
\* the writer lock taken, beginTxn waits for it on the only thread there is,
\* or throws, depending on the build of node-lmdb; a throw is caught and
\* rejects the promise of write.
Write(c, h, whenBusy) ==
    /\ AppIdle
    /\ directory.txn[c].state = "none"
    /\ \A b \in Callers : b < c => directory.txn[b].state # "none"
    /\ directory' =
         IF ~WriterBusy(directory)
         THEN [directory EXCEPT !.txn[c] = [state |-> "open", dir |-> h.dir,
                                            work |-> directory.data, ops |-> 0],
                                !.last = NoCall]
         ELSE IF whenBusy = "blocks"
         THEN [directory EXCEPT !.hung = TRUE, !.last = NoCall]
         ELSE [directory EXCEPT !.txn[c].state = "rejected", !.last = NoCall]
    /\ UNCHANGED << socketVars, resolver, document, templateField, stream, message, transaction >>

\* fn calls writer.add(entries).
Add(c, paths) ==
    /\ AppIdle
    /\ directory.txn[c].state = "open"
    /\ directory.txn[c].ops < MaxOps
    /\ LET t == directory.txn[c]
       IN  directory' = [directory EXCEPT
                            !.txn[c].work = add(t.dir, Entries(paths, c), t.work).store,
                            !.txn[c].ops = @ + 1,
                            !.last = NoCall]
    /\ UNCHANGED << socketVars, resolver, document, templateField, stream, message, transaction >>

\* fn calls writer.remove(paths).
Remove(c, paths) ==
    /\ AppIdle
    /\ directory.txn[c].state = "open"
    /\ directory.txn[c].ops < MaxOps
    /\ LET t == directory.txn[c]
       IN  directory' = [directory EXCEPT
                            !.txn[c].work = remove(t.dir, paths, t.work),
                            !.txn[c].ops = @ + 1,
                            !.last = NoCall]
    /\ UNCHANGED << socketVars, resolver, document, templateField, stream, message, transaction >>

\* The promise fn returned is fulfilled: the then() callback of write.
Fulfil(c) ==
    /\ AppIdle
    /\ directory.txn[c].state = "open"
    /\ directory' = [commit(directory, c) EXCEPT !.last = NoCall]
    /\ UNCHANGED << socketVars, resolver, document, templateField, stream, message, transaction >>

\* The promise fn returned is rejected, or fn threw: the catch() callback
\* and the catch block of write.
Reject(c) ==
    /\ AppIdle
    /\ directory.txn[c].state = "open"
    /\ directory' = [abort(directory, c) EXCEPT !.last = NoCall]
    /\ UNCHANGED << socketVars, resolver, document, templateField, stream, message, transaction >>

\* h.close()
CloseDirectory(h) ==
    /\ AppIdle
    /\ directory' = [closeDirectory(directory, h) EXCEPT !.last = NoCall]
    /\ UNCHANGED << socketVars, resolver, document, templateField, stream, message, transaction >>

\* h.read(reader => reader.list(paths)): the whole transaction runs in one
\* turn of the event loop.
ReadList(h, paths) ==
    /\ AppIdle
    /\ ~WriterBusy(directory)
    /\ directory' = [directory EXCEPT !.last =
                        [ op |-> "list", dir |-> h.dir, paths |-> paths,
                          before |-> DOMAIN directory.data,
                          result |-> list(h.dir, paths, directory.data) ]]
    /\ UNCHANGED << socketVars, resolver, document, templateField, stream, message, transaction >>

\* h.write(writer => writer.remove(paths)), in one turn of the event loop.
WriteRemove(h, paths) ==
    /\ AppIdle
    /\ ~WriterBusy(directory)
    /\ LET v == visitEachMatch(prefix(h.dir, paths), directory.data, TRUE)
       IN  directory' = [directory EXCEPT
                            !.data = v.store,
                            !.last = [ op |-> "remove", dir |-> h.dir,
                                       paths |-> paths,
                                       before |-> DOMAIN directory.data,
                                       result |-> v.visited ]]
    /\ UNCHANGED << socketVars, resolver, document, templateField, stream, message, transaction >>

\* --------------------------------------------------- ConfigurationSystem
normalizePath(path) == (IF startsWith(path, ".") THEN "" ELSE ".") \o path
prefixPath(start, path) == start \o normalizePath(path)
prefixPaths(start, paths) ==
    IF Len(paths) = 0 THEN << start >>
    ELSE [i \in 1..Len(paths) |-> prefixPath(start, paths[i])]

\* A document or a template as the directory stores it.
Stored(name, template) == [name |-> name, template |-> template]
NoTemplate == ""             \* document.template is undefined

\* The Map index of validateDocuments, in insertion order: the normalized
\* template paths, and the documents of each.
RECURSIVE indexFrom(_, _, _)
indexFrom(documents, i, index) ==
    IF i > Len(documents) THEN index
    ELSE IF documents[i].template = NoTemplate
    THEN indexFrom(documents, i + 1, index)
    ELSE LET path == normalizePath(documents[i].template)
             at == { k \in 1..Len(index) : index[k].path = path }
         IN  indexFrom(documents, i + 1,
                 IF at = {}
                 THEN Append(index, [path |-> path, documents |-> << documents[i] >>])
                 ELSE LET k == CHOOSE k \in at : TRUE
                      IN  [index EXCEPT ![k].documents = Append(@, documents[i])])

\* Template.validate(document): the number of violations of its report.
\* Whether the body of the document fits the body of its template is given
\* with the document.
validate(template, doc) ==
    [ document |-> doc.name,
      violations |-> IF template.name = doc.template
                     THEN (IF doc.sound THEN 0 ELSE 1)
                     ELSE 1 ]

\* while (document = documents.pop()) reports.push(template.validate(document))
RECURSIVE popAll(_, _, _)
popAll(template, documents, reports) ==
    IF Len(documents) = 0 THEN reports
    ELSE popAll(template, SubSeq(documents, 1, Len(documents) - 1),
                Append(reports, validate(template, documents[Len(documents)])))

\* The reduce over the templates that list() found.
RECURSIVE reduceTemplates(_, _, _, _)
reduceTemplates(templates, i, v, store) ==
    IF i > Len(templates) THEN v
    ELSE LET template == store[templates[i]]
             path == normalizePath(template.name)
             at == { k \in 1..Len(v.index) : v.index[k].path = path }
         IN  IF at = {} THEN reduceTemplates(templates, i + 1, v, store)
             ELSE LET k == CHOOSE k \in at : TRUE
                  IN  reduceTemplates(templates, i + 1,
                          [ index |-> [v.index EXCEPT ![k].documents = << >>],
                            reports |-> popAll(template, v.index[k].documents,
                                               v.reports) ],
                          store)

\* The documents left in the index have no template in the directory.
RECURSIVE reportMissing(_, _, _, _)
reportMissing(index, k, i, reports) ==
    IF k > Len(index) THEN reports
    ELSE IF i > Len(index[k].documents) THEN reportMissing(index, k + 1, 1, reports)
    ELSE reportMissing(index, k, i + 1,
             Append(reports, [document |-> index[k].documents[i].name,
                              violations |-> 1]))

validateDocuments(store, documents) ==
    LET index == indexFrom(documents, 1, << >>)
        templatePaths == [k \in 1..Len(index) |-> index[k].path]
        templates == list("", prefixPaths(".t", templatePaths), store)
        checked == reduceTemplates(templates, 1,
                                   [index |-> index, reports |-> << >>], store)
    IN  reportMissing(checked.index, 1, 1, checked.reports)

violationCountOfFirst(reports) ==
    IF Len(reports) = 0 THEN 0 ELSE reports[1].violations
RECURSIVE violationCount(_)
violationCount(reports) ==
    IF Len(reports) = 0 THEN 0
    ELSE reports[1].violations + violationCount(Tail(reports))

\* add(writer, prefix, values): the entries given to writer.add.
NamedEntries(start, values) ==
    [i \in 1..Len(values) |->
        [ path |-> prefixPath(start, values[i].name),
          value |-> Stored(values[i].name, values[i].template) ]]

\* addDocuments(documents), a whole write transaction: the entries committed,
\* the reports, and whether the promise is rejected.
addDocuments(store, documents) ==
    LET reports == validateDocuments(store, documents)
        added == add("", NamedEntries(".d", documents), store)
    IN  IF violationCount(reports) # 0
        THEN [store |-> store, reports |-> reports, rejected |-> FALSE]
        ELSE IF added.ok
        THEN [store |-> added.store, reports |-> reports, rejected |-> FALSE]
        ELSE [store |-> store, reports |-> reports, rejected |-> TRUE]

\* acml.Document: its constructor refuses a name and a template name that
\* end with a dot.
DocumentNames == {"", "a", "b"}
TemplateNames == {"x", ".x"}
Documents ==
    { [name |-> n, template |-> NoTemplate, sound |-> TRUE] : n \in DocumentNames }
    \cup { [name |-> n, template |-> t, sound |-> s] :
             n \in DocumentNames, t \in TemplateNames, s \in BOOLEAN }
DocumentLists(n) == UNION { [1..k -> Documents] : k \in 0..n }
TemplateLists(n) ==
    UNION { [1..k -> { [name |-> t, template |-> NoTemplate] : t \in TemplateNames }] :
              k \in 0..n }

\* store.addDocuments(documents).  The transaction function only chains
\* promises that are already settled, so the transaction runs in one turn.
AddDocuments(documents) ==
    /\ AppIdle
    /\ ~WriterBusy(directory)
    /\ LET done == addDocuments(directory.data, documents)
       IN  directory' = [directory EXCEPT
                            !.data = done.store,
                            !.last = [ op |-> "addDocuments",
                                       documents |-> documents,
                                       reports |-> done.reports,
                                       rejected |-> done.rejected,
                                       before |-> directory.data ]]
    /\ UNCHANGED << socketVars, resolver, document, templateField, stream, message, transaction >>

\* ------------------------------------------------------------ acml.Patch
\* The values of a document body: a kind, and for a list or a map its
\* properties by key; a list has a length as well.
NoItems == << >>
Undefined == [kind |-> "undefined", items |-> NoItems, length |-> 0]
Null == [kind |-> "null", items |-> NoItems, length |-> 0]
Text(word) == [kind |-> word, items |-> NoItems, length |-> 0]
EmptyMap == [kind |-> "map", items |-> NoItems, length |-> 0]
EmptyList == [kind |-> "list", items |-> NoItems, length |-> 0]

NaN == 0 - 1
Digits == {"0", "1", "2", "3", "4", "5", "6", "7", "8", "9"}
DigitValue(c) == CHOOSE n \in 0..9 : ToString(n) = c

\* String.prototype.indexOf, counting from 0; -1 when there is none.
RECURSIVE indexFromOffset(_, _, _)
indexFromOffset(s, c, i) ==
    IF i >= Len(s) THEN 0 - 1
    ELSE IF SubSeq(s, i + 1, i + 1) = c THEN i
    ELSE indexFromOffset(s, c, i + 1)
indexOf(s, c) == indexFromOffset(s, c, 0)

\* /[0-9]+/.test(head): head has a digit somewhere.
IsInt(head) == \E i \in 1..Len(head) : SubSeq(head, i, i) \in Digits

\* parseInt(head): the number its leading digits spell, NaN without any.
RECURSIVE parseDigits(_, _, _)
parseDigits(head, i, n) ==
    IF i > Len(head) \/ SubSeq(head, i, i) \notin Digits THEN n
    ELSE parseDigits(head, i + 1, 10 * n + DigitValue(SubSeq(head, i, i)))
parseInt(head) ==
    IF Len(head) = 0 \/ SubSeq(head, 1, 1) \notin Digits THEN NaN
    ELSE parseDigits(head, 1, 0)

\* object[index], read and written.
PropertyKey(index, isInt) ==
    IF ~isInt THEN index ELSE IF index = NaN THEN "NaN" ELSE ToString(index)
GetProperty(object, key) ==
    IF key \in DOMAIN object.items THEN object.items[key] ELSE Undefined
SetProperty(object, key, value, newLength) ==
    [ kind |-> object.kind,
      items |-> [k \in DOMAIN object.items \cup {key} |->
                    IF k = key THEN value ELSE object.items[k]],
      length |-> IF newLength > object.length THEN newLength ELSE object.length ]

\* mutate(path, object, data) of Patch.apply: the value it returns, whether
\* that is the object it was given (changed in place) and whether it threw a
\* TypeError, which reading a property of null does.
RECURSIVE mutate(_, _, _)
mutate(path, object, data) ==
    IF path = "" THEN [value |-> data, inPlace |-> FALSE, threw |-> FALSE]
    ELSE LET i == indexOf(path, "/")
             head == IF i >= 0 THEN SubSeq(path, 1, i) ELSE path
             tail == IF i >= 0 THEN SubSeq(path, i + 2, Len(path)) ELSE ""
             isInt == IsInt(head)
             index == IF isInt THEN parseInt(head) ELSE head
             fresh == IF isInt THEN object.kind # "list"
                      ELSE object.kind \notin {"map", "null"}
             target == IF ~fresh THEN object
                       ELSE IF isInt THEN EmptyList ELSE EmptyMap
             key == PropertyKey(index, isInt)
         IN  IF target.kind = "null"
             THEN [value |-> Undefined, inPlace |-> FALSE, threw |-> TRUE]
             ELSE LET inner == mutate(tail, GetProperty(target, key), data)
                      newLength == IF isInt /\ target.kind = "list" /\ index # NaN
                                   THEN index + 1 ELSE 0
                  IN  IF inner.threw
                      THEN [value |-> Undefined, inPlace |-> FALSE, threw |-> TRUE]
                      ELSE [ value |-> SetProperty(target, key, inner.value, newLength),
                             inPlace |-> ~fresh,
                             threw |-> FALSE ]

\* Patch.apply(document): what document.body is afterwards.  The value
\* mutate returns is dropped, so the body changes only when mutate worked on
\* the very object it was given.
apply(patch, doc) ==
    IF doc.name # patch.name
    THEN [doc EXCEPT !.threw = TRUE]
    ELSE LET done == mutate(patch.path, doc.body, patch.data)
         IN  [doc EXCEPT !.body = IF done.inPlace /\ ~done.threw THEN done.value ELSE @,
                         !.threw = done.threw]

NoPatch == [name |-> "", path |-> "", data |-> Undefined]
Document(name, body) ==
    [ name |-> name, body |-> body,
      before |-> body,          \* the body before the last apply
      patch |-> NoPatch,        \* the patch of the last apply
      threw |-> FALSE,          \* the last apply threw
      patches |-> 0 ]           \* the number of apply calls

Bodies ==
    { EmptyMap, Null,
      [EmptyMap EXCEPT !.items = [k \in {"name"} |-> Text("old")]],
      [EmptyList EXCEPT !.items = [k \in {"0"} |-> Text("old")], !.length = 1] }
PatchNames == {"d", "e"}
PatchPaths == {"", "name", "3", "3/name", "name/3"}
Patches ==
    { [name |-> n, path |-> p, data |-> Text("new")] :
        n \in PatchNames, p \in PatchPaths }

\* patch.apply(document)
Apply(patch) ==
    /\ document.patches < MaxPatches
    /\ document' = [apply(patch, document) EXCEPT !.before = document.body,
                                                  !.patch = patch,
                                                  !.patches = @ + 1]
    /\ UNCHANGED << socketVars, resolver, directory, templateField, stream, message, transaction >>

\* ------------------------------------------------------ acml.TemplateField
\* What evaluating a condition expression on the entity comes to: the
\* function returns true, it returns another value, the expression yields
\* nothing to call (context.__lambda is falsy), or compiling or calling it
\* throws.
ConditionOutcomes == {"true", "other", "nothing", "throws"}

\* A violation: the condition it names and the fields it carries besides
\* path and condition.
Violation(condition, fields) == [condition |-> condition, fields |-> fields]

\* The callback TemplateField.validate reduces its conditions with.
validateCondition(violations, condition, outcome) ==
    IF outcome = "true" THEN violations
    ELSE LET caught == IF outcome = "throws"
                       THEN Append(violations, Violation(condition, {"exception"}))
                       ELSE violations
         IN  Append(caught, Violation(condition, {}))

RECURSIVE reduceConditions(_, _, _)
reduceConditions(violations, outcomes, i) ==
    IF i > Len(outcomes) THEN violations
    ELSE reduceConditions(validateCondition(violations, i, outcomes[i]),
                          outcomes, i + 1)

\* TemplateField.validate: the violations of the conditions, then those of
\* validateInner.  A condition is named by its position.
validateField(outcomes, inner) == reduceConditions(<< >>, outcomes, 1) \o inner

InnerCondition == 0
InnerViolations == { << >>, << Violation(InnerCondition, {}) >> }

RECURSIVE OutcomeLists(_)
OutcomeLists(n) ==
    IF n = 0 THEN { << >> }
    ELSE LET shorter == OutcomeLists(n - 1)
         IN  shorter \cup { Append(s, o) : s \in { x \in shorter : Len(x) = n - 1 },
                                           o \in ConditionOutcomes }

TemplateField(outcomes, inner) ==
    [ outcomes |-> outcomes,    \* what each of this.conditions comes to
      inner |-> inner,          \* what validateInner returns
      validated |-> FALSE,
      violations |-> << >> ]    \* what validate returned

\* field.validate(path, entity, indexOrKey, length)
Validate ==
    /\ ~templateField.validated
    /\ templateField' = [templateField EXCEPT
                      !.validated = TRUE,
                      !.violations = validateField(templateField.outcomes, templateField.inner)]
    /\ UNCHANGED << socketVars, resolver, directory, document, stream, message, transaction >>

\* ---------------------------------- ResolverSocketTCP: the receive parser
\* Buffers are sequences of bytes, counted from 0 in the code and from 1 here.
Max(a, b) == IF a > b THEN a ELSE b
Min(a, b) == IF a < b THEN a ELSE b
alloc(n) == [i \in 1..n |-> 0]
slice(buffer, start, end) ==
    SubSeq(buffer, Min(start, Len(buffer)) + 1, Min(end, Len(buffer)))
sliceFrom(buffer, start) == slice(buffer, start, Len(buffer))
readUInt16BE(buffer) == buffer[1] * 256 + buffer[2]
writeUInt16BE(n) == << n \div 256, n % 256 >>

\* source.copy(target, targetStart, sourceStart, sourceEnd): the target
\* afterwards and the number of bytes copied.
copy(source, target, targetStart, sourceStart, sourceEnd) ==
    LET count == Max(0, Min(Min(sourceEnd, Len(source)) - sourceStart,
                            Len(target) - targetStart))
    IN  [ target |-> [i \in 1..Len(target) |->
                        IF i > targetStart /\ i <= targetStart + count
                        THEN source[sourceStart + i - targetStart]
                        ELSE target[i]],
          count |-> count ]

\* The messages a name server sends: message k of length n is n bytes k.
MessageLengths == MinMessage..MaxMessage
Response(k, n) == [i \in 1..n |-> k]
\* Message.read(buffer) throws unless the buffer holds a message.
Readable(buffer) ==
    \E k \in 1..MaxMessages, n \in MessageLengths : buffer = Response(k, n)
Frame(body) == writeUInt16BE(Len(body)) \o body

RECURSIVE Frames(_, _)
Frames(responses, k) ==
    IF k > Len(responses) THEN << >>
    ELSE Frame(responses[k]) \o Frames(responses, k + 1)

RECURSIVE LengthLists(_)
LengthLists(n) ==
    IF n = 0 THEN { << >> }
    ELSE LET shorter == LengthLists(n - 1)
         IN  shorter \cup { Append(s, l) : s \in { x \in shorter : Len(x) = n - 1 },
                                           l \in MessageLengths }

\* The closure of openSocket and the stream its socket delivers.
Stream(lengths) ==
    LET responses == [k \in 1..Len(lengths) |-> Response(k, lengths[k])]
    IN  [ responses |-> responses,
          bytes |-> Frames(responses, 1),
          position |-> 0,                  \* bytes delivered so far
          receiveBuffer |-> alloc(2),
          bytesExpected |-> NotANumber,    \* undefined
          bytesReceived |-> 0,
          listener |-> "onLengthData",
          received |-> << >>,              \* the buffers given to onMessageReceived
          destroyed |-> FALSE,             \* socket.destroy(error) was called
          thrown |-> FALSE ]               \* a data listener threw

RECURSIVE onLengthData(_, _)
RECURSIVE onMessageData(_, _)
onLengthData(p, chunk) ==
    LET first == p.bytesReceived = 0 /\ Len(chunk) >= 2
        copied == copy(chunk, p.receiveBuffer, 0, 0, 2 - p.bytesReceived)
        buffer == IF first THEN chunk ELSE copied.target
        offset == IF first THEN 2 ELSE copied.count
        got == IF first THEN 2 ELSE p.bytesReceived + offset
    IN  IF got # 2
        THEN [p EXCEPT !.receiveBuffer = buffer, !.bytesReceived = got]
        ELSE IF Len(buffer) < 2
        THEN [p EXCEPT !.receiveBuffer = buffer, !.bytesReceived = got,
                       !.thrown = TRUE]
        ELSE LET expected == readUInt16BE(buffer)
                 rest == sliceFrom(chunk, offset)
                 whole == Len(rest) >= expected
             IN  onMessageData(
                     [p EXCEPT !.bytesExpected = expected,
                               !.receiveBuffer = IF whole THEN slice(rest, 0, expected)
                                                 ELSE alloc(expected),
                               !.bytesReceived = IF whole THEN expected ELSE 0,
                               !.listener = "onMessageData"],
                     IF whole THEN sliceFrom(rest, expected) ELSE rest)

onMessageData(p, chunk) ==
    LET bytesRemaining == p.bytesExpected - p.bytesReceived
        copied == copy(chunk, p.receiveBuffer, bytesRemaining, 0, Len(chunk))
    IN  IF bytesRemaining > 0
        THEN [p EXCEPT !.receiveBuffer = copied.target,
                       !.bytesReceived = @ + copied.count]
        ELSE LET reset == [p EXCEPT !.bytesExpected = NotANumber,
                                    !.bytesReceived = 0]
             IN  IF ~Readable(p.receiveBuffer)
                 THEN [reset EXCEPT !.destroyed = TRUE]
                 ELSE LET next == [reset EXCEPT
                                     !.received = Append(@, p.receiveBuffer),
                                     !.listener = "onLengthData"]
                      IN  IF Len(chunk) > 0 THEN onLengthData(next, chunk)
                          ELSE next

\* The socket emits 'data' with the next n bytes of the stream.
Data(n) ==
    /\ ~stream.destroyed /\ ~stream.thrown
    /\ stream.position + n <= Len(stream.bytes)
    /\ LET chunk == SubSeq(stream.bytes, stream.position + 1, stream.position + n)
           p == [stream EXCEPT !.position = @ + n]
       IN  stream' = IF stream.listener = "onLengthData"
                     THEN onLengthData(p, chunk)
                     ELSE onMessageData(p, chunk)
    /\ UNCHANGED << socketVars, resolver, directory, document, templateField, message, transaction >>


\* --------------------------------- DirectoryLMDB.read and write, one call
\* What the call meets: whether env.beginTxn succeeds, what the transaction
\* function f does, and which of the calls of txn.commit and txn.abort,
\* counted in the order they are made, throw.
TransactionFunctions == {"fulfils", "rejects", "throws"}
Transaction(kind, begins, fn, failing) ==
    [ kind |-> kind,              \* "read" or "write"
      begins |-> begins,
      fn |-> fn,
      failing |-> failing,
      phase |-> "idle",           \* "idle", "running" (f's promise is pending), "done"
      releases |-> << >>,         \* the calls of txn.commit and txn.abort
      promise |-> "none" ]        \* of read or write: "none", "pending", "fulfilled",
                                  \* "rejected"; "thrown": the call threw instead

\* txn.commit() or txn.abort(): the call is recorded, with the state of the
\* returned promise at that moment, and may throw.
release(txn, call) ==
    [ txn |-> [txn EXCEPT !.releases =
                   Append(@, [call |-> call, promise |-> txn.promise])],
      threw |-> (Len(txn.releases) + 1) \in txn.failing ]

\* The catch callback of the promise chain: abort, then reject.
catchCallback(txn) == [release(txn, "abort").txn EXCEPT !.promise = "rejected"]

\* The then callback: abort (read) or commit (write), then the result; an
\* exception it throws rejects the promise the catch callback is attached to.
thenCallback(txn) ==
    LET done == release(txn, IF txn.kind = "read" THEN "abort" ELSE "commit")
    IN  IF done.threw THEN catchCallback(done.txn)
        ELSE [done.txn EXCEPT !.promise = "fulfilled"]

\* The synchronous part of read(f) and write(f).
begin(txn) ==
    IF ~txn.begins
    THEN [txn EXCEPT !.phase = "done", !.promise = "rejected"]
    ELSE IF txn.fn = "throws"
    THEN LET done == release(txn, "abort")
         IN  [done.txn EXCEPT !.phase = "done",
                              !.promise = IF done.threw THEN "thrown" ELSE "rejected"]
    ELSE [txn EXCEPT !.phase = "running", !.promise = "pending"]

\* directory.read(f) or directory.write(f) is called.
BeginTransaction ==
    /\ transaction.phase = "idle"
    /\ transaction' = begin(transaction)
    /\ UNCHANGED << socketVars, resolver, directory, document, templateField,
                    stream, message >>

\* The promise of f settles and the callbacks attached to it run.
SettleTransaction ==
    /\ transaction.phase = "running"
    /\ transaction' =
          [ (IF transaction.fn = "fulfils" THEN thenCallback(transaction)
             ELSE catchCallback(transaction)) EXCEPT !.phase = "done" ]
    /\ UNCHANGED << socketVars, resolver, directory, document, templateField,
                    stream, message >>

\* ------------------------------------------------------- dns.Writer
\* A writer is the bytes written so far; its cursor is their number.
writeU8(u8) == << u8 % 256 >>
writeU16(u16) == << (u16 \div 256) % 256, u16 % 256 >>
writeU32(u32) == writeU16(u32 \div 65536) \o writeU16(u32 % 65536)
\* The high 16 bits, then the low 32; the model's integers have 32 bits.
writeU48(u48) ==
    LET high == (u48 \div 65536) \div 65536
    IN  writeU16(high) \o writeU32(u48 - high * 65536 * 65536)

\* The bytes of the first n characters of a string.
StringBytes(string, n) == [i \in 1..Min(n, Len(string)) |-> CharCode(SubSeq(string, i, i))]

\* String.prototype.split(separator), for a separator of one character.
RECURSIVE splitFrom(_, _, _, _)
splitFrom(string, separator, i, part) ==
    IF i > Len(string) THEN << part >>
    ELSE IF SubSeq(string, i, i) = separator
    THEN << part >> \o splitFrom(string, separator, i + 1, "")
    ELSE splitFrom(string, separator, i + 1, part \o SubSeq(string, i, i))
split(string, separator) == splitFrom(string, separator, 1, "")

\* writeStrings(strings, lengthMask); the masks are 0x3f and 0xff.
RECURSIVE writeStringsFrom(_, _, _)
writeStringsFrom(strings, lengthMask, i) ==
    IF i > Len(strings) THEN writeU8(0)
    ELSE LET length == Len(strings[i]) % (lengthMask + 1)
         IN  (IF length > 0
              THEN writeU8(length) \o StringBytes(strings[i], length)
              ELSE << >>)
             \o writeStringsFrom(strings, lengthMask, i + 1)
writeStrings(strings, lengthMask) == writeStringsFrom(strings, lengthMask, 1)

LabelMask == 63
writeName(name) == writeStrings(split(name, "."), LabelMask)

\* ------------------------------------------------- dns.ResourceData
\* parseInt(part, radix) & mask: NaN becomes 0.
HexDigits == "0123456789abcdef"
HexValue(c) == CHOOSE n \in 0..15 : SubSeq(HexDigits, n + 1, n + 1) = c
RECURSIVE parseRadixFrom(_, _, _, _)
parseRadixFrom(part, radix, i, n) ==
    IF i > Len(part)
       \/ ~\E d \in 0..(radix - 1) : SubSeq(HexDigits, d + 1, d + 1) = SubSeq(part, i, i)
    THEN (IF i = 1 THEN NaN ELSE n)
    ELSE parseRadixFrom(part, radix, i + 1, radix * n + HexValue(SubSeq(part, i, i)))
parseIntAnd(part, radix, mask) ==
    LET n == parseRadixFrom(part, radix, 1, 0)
    IN  IF n = NaN THEN 0 ELSE n % (mask + 1)

ResourceData(variant, text, mac) == [variant |-> variant, text |-> text, mac |-> mac]
NoData == ResourceData("none", "", "")

\* The rdlength each variant declares.
rdlength(rdata) ==
    CASE rdata.variant = "none" -> 0
      [] rdata.variant = "A" -> 4
      [] rdata.variant = "AAAA" -> 16
      [] rdata.variant = "PTR" -> Len(rdata.text) + 2
      [] rdata.variant = "TSIG" -> Len(rdata.text) + Len(rdata.mac) + 0 + 18

RECURSIVE writeParts(_, _, _, _)
writeParts(parts, radix, mask, i) ==
    IF i > Len(parts) THEN << >>
    ELSE writeU8(parseIntAnd(parts[i], radix, mask))
         \o writeParts(parts, radix, mask, i + 1)

\* rdata.write(writer) of each variant.  The TSIG is the one the signer
\* makes: time 0, the fudge, error 0 and no other data.
Fudge == 300
writeData(rdata, originalId) ==
    CASE rdata.variant = "none" -> << >>
      [] rdata.variant = "A" -> writeParts(split(rdata.text, "."), 10, 255, 1)
      [] rdata.variant = "AAAA" -> writeParts(split(rdata.text, "."), 16, 65535, 1)
      [] rdata.variant = "PTR" -> writeName(rdata.text)
      [] rdata.variant = "TSIG" ->
            writeName(rdata.text) \o writeU48(0) \o writeU16(Fudge)
            \o writeU16(Len(rdata.mac)) \o StringBytes(rdata.mac, Len(rdata.mac))
            \o writeU16(originalId) \o writeU16(0) \o writeU16(0)

\* ----------------------------------------------- dns.ResourceRecord
TypeA == 1
TypeSOA == 6
TypePTR == 12
TypeAAAA == 28
TypeTSIG == 250
TypeANY == 255
ClassIN == 1
ClassNONE == 254
ClassANY == 255
OpCodeUPDATE == 5

ResourceRecord(name, type, dclass, rdata) ==
    [name |-> name, type |-> type, dclass |-> dclass, ttl |-> 0, rdata |-> rdata]

\* ResourceRecord.length(isQuestion)
recordLength(record, isQuestion) ==
    Len(record.name) + 6 + (IF isQuestion THEN 0 ELSE 6 + rdlength(record.rdata))

\* ResourceRecord.write(writer, isQuestion)
writeRecord(record, isQuestion, originalId) ==
    writeName(record.name) \o writeU16(record.type) \o writeU16(record.dclass)
    \o (IF isQuestion THEN << >>
        ELSE writeU32(record.ttl) \o writeU16(rdlength(record.rdata))
             \o writeData(record.rdata, originalId))

\* ------------------------------------------------------ dns.Message
RECURSIVE sumLengths(_, _, _)
sumLengths(records, isQuestion, i) ==
    IF i > Len(records) THEN 0
    ELSE recordLength(records[i], isQuestion) + sumLengths(records, isQuestion, i + 1)

RECURSIVE writeRecords(_, _, _, _)
writeRecords(records, isQuestion, originalId, i) ==
    IF i > Len(records) THEN << >>
    ELSE writeRecord(records[i], isQuestion, originalId)
         \o writeRecords(records, isQuestion, originalId, i + 1)

\* Message.length()
messageLength(m) ==
    12 + sumLengths(m.questions, TRUE, 1) + sumLengths(m.answers, FALSE, 1)
       + sumLengths(m.authorities, FALSE, 1) + sumLengths(m.additionals, FALSE, 1)

\* The flags word of Message.write; the flags never given are undefined and
\* count as 0.
flagsWord(flags) ==
    (IF flags.qr THEN 32768 ELSE 0) + (flags.opcode % 16) * 2048

\* Message.write(sink): the bytes written.
writeMessage(m) ==
    writeU16(m.id) \o writeU16(flagsWord(m.flags))
    \o writeU16(Len(m.questions)) \o writeU16(Len(m.answers))
    \o writeU16(Len(m.authorities)) \o writeU16(Len(m.additionals))
    \o writeRecords(m.questions, TRUE, m.id, 1)
    \o writeRecords(m.answers, FALSE, m.id, 1)
    \o writeRecords(m.authorities, FALSE, m.id, 1)
    \o writeRecords(m.additionals, FALSE, m.id, 1)

\* ------------------------------------------------ TransactionSigner
NoSigner == [present |-> FALSE, keyName |-> "", algorithmName |-> ""]
Signer == [present |-> TRUE, keyName |-> "a", algorithmName |-> "b"]
Mac == "ab"

\* signer.sign(messageID, messageBuffer): the TSIG record.
sign(signer) ==
    ResourceRecord(signer.keyName, TypeTSIG, ClassANY,
                   ResourceData("TSIG", signer.algorithmName, Mac))

\* signer.length(): the bytes of the record sign() returns.
signerLength(signer) == recordLength(sign(signer), FALSE)

\* ---------------------------------------------------- UpdateBuilder
\* A section that was never set is undefined, which the constructor of
\* Message turns into the empty list.
NewId == 1
EmptyBuilder ==
    [ id |-> 0,                 \* 0: undefined
      flags |-> "undefined",    \* or "{}", "{qr: false}", "{qr: true}"
      questions |-> << >>, answers |-> << >>, authorities |-> << >>,
      additionals |-> << >>, transactionSigner |-> NoSigner ]

NoMessageBuilt ==
    [ id |-> 0, flags |-> [qr |-> FALSE, opcode |-> 0],
      questions |-> << >>, answers |-> << >>, authorities |-> << >>,
      additionals |-> << >>, transactionSigner |-> NoSigner ]

\* build(): reading this._flags.qr throws when flags() was never called.
build(builder) ==
    IF builder.flags = "undefined"
    THEN [threw |-> TRUE, message |-> NoMessageBuilt]
    ELSE [ threw |-> FALSE,
           message |->
             [ id |-> IF builder.id # 0 THEN builder.id ELSE NewId,
               flags |-> [qr |-> builder.flags = "{qr: true}", opcode |-> OpCodeUPDATE],
               questions |-> builder.questions, answers |-> builder.answers,
               authorities |-> builder.authorities,
               additionals |-> builder.additionals,
               transactionSigner |-> builder.transactionSigner ] ]

\* -------------------------------------- ResolverSocketTCP.send
\* buffer.write...(bytes, offset)
put(buffer, bytes, offset) ==
    [i \in 1..Len(buffer) |->
        IF i > offset /\ i <= offset + Len(bytes) THEN bytes[i - offset] ELSE buffer[i]]

\* send(socket, request): the buffer given to socket.write.
sendTCP(request) ==
    LET lengthBase == messageLength(request)
        lengthTSIG == IF request.transactionSigner.present
                      THEN signerLength(request.transactionSigner) ELSE 0
        length == lengthBase + lengthTSIG
        prefixed == put(alloc(2 + length), writeUInt16BE(length), 0)
        written == put(prefixed, writeMessage(request), 2)
    IN  IF lengthTSIG > 0
        THEN put(put(written, writeUInt16BE(Len(request.additionals) + 1), 10),
                 writeRecord(sign(request.transactionSigner), FALSE, request.id),
                 2 + lengthBase)
        ELSE written

\* ------------------------------------------ building and sending a message
NameInputs == {"a", "a."}
AddressInputs == {"1.2.3.4"}
Address6Inputs == {"::1"}
RecordInputs ==
    { ResourceRecord(name, TypeANY, ClassIN, NoData) : name \in NameInputs }
    \cup { ResourceRecord("a", TypeA, ClassIN, ResourceData("A", address, "")) :
             address \in AddressInputs }
    \cup { ResourceRecord("a", TypeAAAA, ClassIN, ResourceData("AAAA", address, "")) :
             address \in Address6Inputs }
    \cup { ResourceRecord("a", TypePTR, ClassIN, ResourceData("PTR", name, "")) :
             name \in NameInputs }

AdditionalInputs == { ResourceRecord("a", TypeANY, ClassIN, NoData) }

NothingAsked ==
    [ zone |-> << >>,               \* the arguments of the zone() calls
      prerequisites |-> << >>,      \* the records asked absent or present
      updates |-> << >>,            \* the records given to update()
      additionals |-> << >>,        \* the records given to additionals()
      qr |-> FALSE ]                \* flags() was given qr: true last

MessageUnbuilt ==
    [ builder |-> EmptyBuilder,
      calls |-> 0,                  \* builder methods called so far
      asked |-> NothingAsked,       \* what the caller asked the builder for
      phase |-> "building",         \* "building", "built", "threw", "sent"
      built |-> NoMessageBuilt,     \* what build() returned
      length |-> 0,                 \* what length() returned
      written |-> << >>,            \* what write() wrote
      frame |-> << >> ]             \* what the TCP transport gave to socket.write

\* A method of the builder returns the next builder.
Building(next, asked) ==
    /\ message.phase = "building"
    /\ message.calls < MaxCalls
    /\ message' = [message EXCEPT !.builder = next, !.asked = asked, !.calls = @ + 1]
    /\ UNCHANGED << socketVars, resolver, directory, document, templateField,
                    stream, transaction >>

BuilderId(id) == Building([message.builder EXCEPT !.id = id], message.asked)
BuilderFlags(flags) ==
    Building([message.builder EXCEPT !.flags = flags],
             [message.asked EXCEPT !.qr = (flags = "{qr: true}")])
BuilderZone(zone) ==
    Building([message.builder EXCEPT
                 !.questions = << ResourceRecord(zone, TypeSOA, ClassIN, NoData) >>],
             [message.asked EXCEPT !.zone = Append(@, zone)])
BuilderAbsent(name) ==
    LET record == ResourceRecord(name, TypeANY, ClassNONE, NoData)
    IN  Building([message.builder EXCEPT !.answers = Append(@, record)],
                 [message.asked EXCEPT !.prerequisites = Append(@, record)])
BuilderPresent(name) ==
    LET record == ResourceRecord(name, TypeANY, ClassANY, NoData)
    IN  Building([message.builder EXCEPT !.answers = Append(@, record)],
                 [message.asked EXCEPT !.prerequisites = Append(@, record)])
BuilderUpdate(record) ==
    Building([message.builder EXCEPT !.authorities = Append(@, record)],
             [message.asked EXCEPT !.updates = Append(@, record)])
BuilderAdditionals(record) ==
    Building([message.builder EXCEPT !.additionals = Append(@, record)],
             [message.asked EXCEPT !.additionals = Append(@, record)])
BuilderSign ==
    Building([message.builder EXCEPT !.transactionSigner = Signer], message.asked)

\* builder.build()
Build ==
    /\ message.phase = "building"
    /\ LET done == build(message.builder)
       IN  message' = [message EXCEPT
                          !.phase = IF done.threw THEN "threw" ELSE "built",
                          !.built = done.message]
    /\ UNCHANGED << socketVars, resolver, directory, document, templateField,
                    stream, transaction >>

\* The TCP transport sends the message.
SendTCP ==
    /\ message.phase = "built"
    /\ message' = [message EXCEPT
                      !.phase = "sent",
                      !.length = messageLength(message.built),
                      !.written = writeMessage(message.built),
                      !.frame = sendTCP(message.built)]
    /\ UNCHANGED << socketVars, resolver, directory, document, templateField,
                    stream, transaction >>

\* ------------------------------------------------------- the specifications
Init ==
    /\ mid = [t \in Tasks |-> 0]
    /\ via = [t \in Tasks |-> "none"]
    /\ retriesLeft = [t \in Tasks |-> NotANumber]
    /\ timestampSent = [t \in Tasks |-> NotANumber]
    /\ calls = [t \in Tasks |-> << >>]
    /\ transmissions = [t \in Tasks |-> 0]
    /\ socket = [tp \in Transports |-> NoSocket]
    /\ opened = [tp \in Transports |-> FALSE]
    /\ inbound = [tp \in Transports |-> << >>]
    /\ outbound = [tp \in Transports |-> << >>]
    /\ closer = [tp \in Transports |-> FALSE]
    /\ sockState = [s \in Sockets |-> "none"]
    /\ sockOwner = [s \in Sockets |-> "none"]
    /\ nsock = 0
    /\ timerOn = TRUE
    /\ now = 0
    /\ faults = 0
    /\ resolver = ResolverIdle(1)
    /\ directory = DirectoryOpened
    /\ document = Document("d", EmptyMap)
    /\ templateField = TemplateField(<< >>, << >>)
    /\ stream = Stream(<< >>)
    /\ message = MessageUnbuilt
    /\ transaction = Transaction("read", TRUE, "fulfils", {})

Next ==
    \/ \E t \in Tasks, id \in MsgIds, length \in RequestLengths, opcode \in OpCodes :
          Send(t, id, length, opcode)
    \/ Close
    \/ \E sameMs \in BOOLEAN : Scan(sameMs)
    \/ \E tp \in Transports : CloserFires(tp)
    \/ \E s \in Sockets : Opened(s)
    \/ \E s \in Sockets, id \in MsgIds : Receive(s, id)
    \/ \E s \in Sockets, error \in SocketErrors : SocketError(s, error)
    \/ \E s \in Sockets, error \in SocketErrors : MalformedDatagram(s, error)
    \/ \E s \in Sockets : TcpTimeout(s)
    \/ \E s \in Sockets : Closed(s)

Spec == Init /\ [][Next]_vars

\* The list of name servers is fixed by the constructor of Resolver.
ResolverInit ==
    /\ Init!1 /\ Init!2 /\ Init!3 /\ Init!4 /\ Init!5 /\ Init!6 /\ Init!7
    /\ Init!8 /\ Init!9 /\ Init!10 /\ Init!11 /\ Init!12 /\ Init!13 /\ Init!14
    /\ Init!15 /\ Init!16 /\ Init!17
    /\ resolver \in { ResolverIdle(k) : k \in 0..MaxServers }
    /\ Init!19 /\ Init!20 /\ Init!21 /\ Init!22 /\ Init!23 /\ Init!24

ResolverNext ==
    \/ \E n \in 0..MaxRequests : SendAll(n)
    \/ \E r \in Requests, answer \in Answers : SocketAnswers(r, answer)
    \/ \E r \in Requests : Push(r)

ResolverSpec == ResolverInit /\ [][ResolverNext]_vars

\* The directory and the transaction functions of its callers.
DirectoryNext ==
    \/ \E c \in Callers, h \in Handles, whenBusy \in {"blocks", "throws"} :
          Write(c, h, whenBusy)
    \/ \E c \in Callers, paths \in PathLists(MaxEntries) : Add(c, paths)
    \/ \E c \in Callers, paths \in PathLists(MaxPaths) : Remove(c, paths)
    \/ \E c \in Callers : Fulfil(c)
    \/ \E c \in Callers : Reject(c)
    \/ \E h \in Handles : CloseDirectory(h)

DirectorySpec == Init /\ [][DirectoryNext]_vars

\* list and remove on every database the directory objects can have built.
StoredKeys ==
    { join(h.dir, path) : h \in Handles,
                          path \in { q \in PathInputs : ~endsWith(q, ".") } }

RangeInit ==
    /\ Init!1 /\ Init!2 /\ Init!3 /\ Init!4 /\ Init!5 /\ Init!6 /\ Init!7
    /\ Init!8 /\ Init!9 /\ Init!10 /\ Init!11 /\ Init!12 /\ Init!13 /\ Init!14
    /\ Init!15 /\ Init!16 /\ Init!17 /\ Init!18 /\ Init!20
    /\ Init!21 /\ Init!22 /\ Init!23 /\ Init!24
    /\ directory \in { [DirectoryOpened EXCEPT !.data = [k \in keys |-> 1]] :
                          keys \in SUBSET StoredKeys }

\* One call on each of them.
RangeNext ==
    /\ directory.last.op = "none"
    /\ \/ \E h \in Handles, paths \in PathLists(MaxPaths) : ReadList(h, paths)
       \/ \E h \in Handles, paths \in PathLists(MaxPaths) : WriteRemove(h, paths)

RangeSpec == RangeInit /\ [][RangeNext]_vars

\* addDocuments on every registry of templates addTemplates can have built,
\* with and without documents stored before.
SystemStores ==
    { add("", NamedEntries(".d", earlier),
              add("", NamedEntries(".t", templates), NoEntries).store).store :
        templates \in TemplateLists(MaxTemplates),
        earlier \in DocumentLists(1) }

SystemInit ==
    /\ Init!1 /\ Init!2 /\ Init!3 /\ Init!4 /\ Init!5 /\ Init!6 /\ Init!7
    /\ Init!8 /\ Init!9 /\ Init!10 /\ Init!11 /\ Init!12 /\ Init!13 /\ Init!14
    /\ Init!15 /\ Init!16 /\ Init!17 /\ Init!18 /\ Init!20
    /\ Init!21 /\ Init!22 /\ Init!23 /\ Init!24
    /\ directory \in { [DirectoryOpened EXCEPT !.data = store] :
                          store \in SystemStores }

\* One call on each of them.
SystemNext ==
    /\ directory.last.op = "none"
    /\ \E documents \in DocumentLists(MaxDocuments) : AddDocuments(documents)

SystemSpec == SystemInit /\ [][SystemNext]_vars

\* A document and the patches applied to it.
PatchInit ==
    /\ Init!1 /\ Init!2 /\ Init!3 /\ Init!4 /\ Init!5 /\ Init!6 /\ Init!7
    /\ Init!8 /\ Init!9 /\ Init!10 /\ Init!11 /\ Init!12 /\ Init!13 /\ Init!14
    /\ Init!15 /\ Init!16 /\ Init!17 /\ Init!18 /\ Init!19
    /\ Init!21 /\ Init!22 /\ Init!23 /\ Init!24
    /\ document \in { Document("d", body) : body \in Bodies }

PatchNext == \E patch \in Patches : Apply(patch)

PatchSpec == PatchInit /\ [][PatchNext]_vars

\* A template field and one validation of an entity.
TemplateInit ==
    /\ Init!1 /\ Init!2 /\ Init!3 /\ Init!4 /\ Init!5 /\ Init!6 /\ Init!7
    /\ Init!8 /\ Init!9 /\ Init!10 /\ Init!11 /\ Init!12 /\ Init!13 /\ Init!14
    /\ Init!15 /\ Init!16 /\ Init!17 /\ Init!18 /\ Init!19 /\ Init!20
    /\ templateField \in { TemplateField(outcomes, inner) :
                        outcomes \in OutcomeLists(MaxConditions),
                        inner \in InnerViolations }
    /\ Init!22 /\ Init!23 /\ Init!24

TemplateNext == Validate

TemplateSpec == TemplateInit /\ [][TemplateNext]_vars

\* A TCP stream of responses, delivered in chunks of any sizes.
StreamInit ==
    /\ Init!1 /\ Init!2 /\ Init!3 /\ Init!4 /\ Init!5 /\ Init!6 /\ Init!7
    /\ Init!8 /\ Init!9 /\ Init!10 /\ Init!11 /\ Init!12 /\ Init!13 /\ Init!14
    /\ Init!15 /\ Init!16 /\ Init!17 /\ Init!18 /\ Init!19 /\ Init!20 /\ Init!21
    /\ stream \in { Stream(lengths) : lengths \in LengthLists(MaxMessages) }
    /\ Init!23 /\ Init!24

StreamNext == \E n \in 1..(MaxMessages * (2 + MaxMessage)) : Data(n)

StreamSpec == StreamInit /\ [][StreamNext]_vars

\* One call of read or write, whatever it meets.
TransactionInit ==
    /\ Init!1 /\ Init!2 /\ Init!3 /\ Init!4 /\ Init!5 /\ Init!6 /\ Init!7
    /\ Init!8 /\ Init!9 /\ Init!10 /\ Init!11 /\ Init!12 /\ Init!13 /\ Init!14
    /\ Init!15 /\ Init!16 /\ Init!17 /\ Init!18 /\ Init!19 /\ Init!20 /\ Init!21
    /\ Init!22 /\ Init!23
    /\ transaction \in { Transaction(kind, begins, fn, failing) :
                           kind \in {"read", "write"}, begins \in BOOLEAN,
                           fn \in TransactionFunctions,
                           failing \in SUBSET (1..MaxReleases) }

TransactionNext == BeginTransaction \/ SettleTransaction

TransactionSpec == TransactionInit /\ [][TransactionNext]_vars

\* An UPDATE message is built and sent over TCP.
MessageNext ==
    \/ \E id \in 1..NumBuilderIds : BuilderId(id)
    \/ \E flags \in {"{}", "{qr: false}", "{qr: true}"} : BuilderFlags(flags)
    \/ \E zone \in NameInputs : BuilderZone(zone)
    \/ \E name \in NameInputs : BuilderAbsent(name)
    \/ \E name \in NameInputs : BuilderPresent(name)
    \/ \E record \in RecordInputs : BuilderUpdate(record)
    \/ \E record \in AdditionalInputs : BuilderAdditionals(record)
    \/ BuilderSign
    \/ Build
    \/ SendTCP

MessageSpec == Init /\ [][MessageNext]_vars

\* With fairness: the scan timer keeps firing while a task is in flight, the
\* closer timeout fires, and the events of a socket that is connecting,
\* binding or closing are delivered.
ScanWithWork ==
    /\ \E tp \in Transports : Len(inbound[tp]) > 0
    /\ \E sameMs \in BOOLEAN : Scan(sameMs)

FairSpec ==
    /\ Spec
    /\ WF_vars(ScanWithWork)
    /\ \A tp \in Transports : WF_vars(CloserFires(tp))
    /\ \A s \in Sockets : WF_vars(Opened(s)) /\ WF_vars(Closed(s))

\* ------------------------------------------------------------------ claims
Settled(t) == Len(calls[t]) > 0
Queued(tp) == { inbound[tp][i] : i \in 1..Len(inbound[tp]) }
                  \cup { outbound[tp][i] : i \in 1..Len(outbound[tp]) }
InFlight(tp) == { inbound[tp][i] : i \in 1..Len(inbound[tp]) }
Other(tp) == IF tp = "TCP" THEN "UDP" ELSE "TCP"
SendStep == \E t \in Tasks : mid'[t] # mid[t]
ScanStep == \E sameMs \in BOOLEAN : Scan(sameMs)
ErrorStep(tp) ==
    \E s \in Sockets, error \in SocketErrors :
        sockOwner[s] = tp /\ SocketError(s, error)
closeCalled == ~timerOn

\* The model's bounds cut the run short.
BoundReached ==
    \/ nsock = MaxSockets
    \/ faults = MaxFaults
    \/ now \div ScanIntervalMs >= MaxScans

\* C1: the resolve and reject callbacks of a task are invoked at most once in
\* total.
C1_SettledAtMostOnce == \A t \in Tasks : Len(calls[t]) <= 1

\* C2: while the scan timer runs and socket events are delivered, every
\* request given to send is eventually resolved or rejected.
C2_EventuallySettled ==
    \A t \in Tasks :
        (mid[t] # 0) ~> (Settled(t) \/ closeCalled \/ BoundReached)

\* C3: no two distinct unsettled tasks that have been transmitted on the same
\* transport carry the same message id.
C3_DistinctIdsOnTheWire ==
    \A t, u \in Tasks :
        ( /\ t # u
          /\ via[t] # "none" /\ via[t] = via[u]
          /\ mid[t] = mid[u]
          /\ transmissions[t] > 0 /\ transmissions[u] > 0 )
        => (Settled(t) \/ Settled(u))

\* C4: a UDP request is written to a socket at most retriesLeft + 1 = 3 times,
\* and the timeout scan never writes a TCP request.
C4_RetryBound ==
    /\ [](\A t \in Tasks : via[t] = "UDP" => transmissions[t] <= UdpRetries + 1)
    /\ [][ScanStep =>
             \A t \in Tasks : via[t] = "TCP" => transmissions'[t] = transmissions[t]]_vars

C4_Witness ==
    \E t \in Tasks :
        /\ via[t] = "UDP"
        /\ transmissions[t] = UdpRetries + 1
        /\ calls[t] = << "RequestUnanswered" >>

\* C5: the scan leaves a task that was written less than timeoutInMs ago in
\* the inbound map, with its retriesLeft unchanged.
C5_ScanOnlyAfterTimeout ==
    [][ScanStep =>
          \A tp \in Transports : \A t \in InFlight(tp) :
              (now + ScanIntervalMs) - timestampSent[t][1] < TimeoutInMs
              => /\ \E i \in 1..Len(inbound'[tp]) : inbound'[tp][i] = t
                 /\ retriesLeft'[t] = retriesLeft[t]]_vars

\* C6: a socket error on a transport rejects every task of its inbound map
\* and of its outbound queue, with kind Other for a cause that is not a
\* resolver error.
C6_ErrorRejectsAll ==
    [][\A tp \in Transports :
          ErrorStep(tp) =>
              \A t \in Queued(tp) :
                  /\ Len(calls'[t]) = Len(calls[t]) + 1
                  /\ calls'[t][Len(calls'[t])] = "Other"]_vars

\* C7: a socket error on one transport leaves the tasks and the queues of the
\* other transport as they are.
C7_ErrorSparesOtherTransport ==
    [][\A tp \in Transports :
          ErrorStep(tp) =>
              /\ inbound'[Other(tp)] = inbound[Other(tp)]
              /\ outbound'[Other(tp)] = outbound[Other(tp)]
              /\ \A t \in Queued(Other(tp)) : calls'[t] = calls[t]]_vars

\* C8: the 'timeout' of the TCP socket ends the socket and fails every task
\* in flight on the TCP transport with RequestUnanswered.
C8_TimeoutFailsAllInFlight ==
    [][\A s \in Sockets :
          TcpTimeout(s) =>
              /\ sockState'[s] \in {"openingEnded", "ended"}
              /\ \A t \in InFlight("TCP") :
                    /\ Len(calls'[t]) = Len(calls[t]) + 1
                    /\ calls'[t][Len(calls'[t])] = "RequestUnanswered"]_vars

\* C9: once close() has been called, no socket is opened unless a further
\* request is sent.
C9_NoSocketAfterClose ==
    [][(closeCalled /\ ~SendStep) => nsock' = nsock]_vars

\* C10: once every request of the list has settled and its result has been
\* collected, the promise of sendAll is settled: resolved when a request
\* succeeded, rejected when none did.
C10_SendAllSettles ==
    ( /\ resolver.phase = "called"
      /\ \A r \in 1..resolver.n : resolver.state[r] = "pushed" )
    => resolver.outcome = (IF resolver.successes > 0 THEN "resolved" ELSE "rejected")

Matches(keys, paths) ==
    { k \in keys : \E i \in 1..Len(paths) :
          IF endsWith(paths[i], ".") THEN startsWith(k, paths[i]) ELSE k = paths[i] }
Ascending(keys) ==
    \A i \in 1..Len(keys) - 1 : Less(keys[i], keys[i + 1])
Elements(keys) == { keys[i] : i \in 1..Len(keys) }

\* C13: list(P) resolves with the entries whose key a path of P matches, each
\* once and in the order of their keys.
C13_ListReturnsTheMatches ==
    directory.last.op = "list" =>
        /\ Elements(directory.last.result) =
               Matches(directory.last.before,
                       prefix(directory.last.dir, directory.last.paths))
        /\ Ascending(directory.last.result)

\* C14: list and remove with no path, or with the empty path alone, visit
\* every key under the prefix of the directory object.
C14_NoPathMatchesAll ==
    ( /\ directory.last.op \in {"list", "remove"}
      /\ directory.last.paths \in { << >>, << "" >> } ) =>
        Elements(directory.last.result) =
            { k \in directory.last.before : startsWith(k, directory.last.dir \o ".") }

\* C15: no key of the database ends with a dot, in the committed entries and
\* in the entries of an open transaction.
C15_NoFolderKeys ==
    /\ \A k \in DOMAIN directory.data : ~endsWith(k, ".")
    /\ \A c \in Callers : \A k \in DOMAIN directory.txn[c].work : ~endsWith(k, ".")

\* C16: an add call with a partially qualified path among its entries leaves
\* the entries of its transaction as they were.
C16_FailedAddAddsNothing ==
    [][ \A c \in Callers, paths \in PathLists(MaxEntries) :
          ( /\ Add(c, paths)
            /\ \E i \in 1..Len(paths) : endsWith(paths[i], ".") )
          => directory'.txn[c].work = directory.txn[c].work ]_vars

\* C17: close() on a directory object other than the root leaves the
\* environment open.
C17_ViewCloseKeepsEngine ==
    [][ \A h \in Handles \ {Root} : CloseDirectory(h) => directory'.open ]_vars

RECURSIVE WithAll(_, _)
WithAll(store, documents) ==
    IF Len(documents) = 0 THEN store
    ELSE WithAll(putBinary(store, prefixPath(".d", documents[1].name),
                           Stored(documents[1].name, documents[1].template)),
                 Tail(documents))

HasViolation(reports) == \E i \in 1..Len(reports) : reports[i].violations > 0

RECURSIVE ValueAt(_, _)
ValueAt(body, path) ==
    IF path = "" THEN body
    ELSE LET i == indexOf(path, "/")
             head == IF i >= 0 THEN SubSeq(path, 1, i) ELSE path
             tail == IF i >= 0 THEN SubSeq(path, i + 2, Len(path)) ELSE ""
             key == PropertyKey(IF IsInt(head) THEN parseInt(head) ELSE head,
                                IsInt(head))
         IN  ValueAt(GetProperty(body, key), tail)

\* C20: after apply with matching names the body holds the data at the path
\* of the patch; with the path 3/name on the body {} it is a list of four
\* whose elements 0 to 2 hold nothing and whose element 3 is a map with the
\* data under name.
C20_BodyHoldsData ==
    ( /\ document.patches > 0
      /\ document.patch.name = document.name
      /\ ~document.threw ) =>
        /\ ValueAt(document.body, document.patch.path) = document.patch.data
        /\ ( document.patch.path = "3/name" /\ document.before = EmptyMap ) =>
              /\ document.body.kind = "list"
              /\ document.body.length = 4
              /\ \A k \in {"0", "1", "2"} :
                    GetProperty(document.body, k).kind \in {"undefined", "null"}
              /\ GetProperty(document.body, "3") =
                    [EmptyMap EXCEPT !.items = [k \in {"name"} |-> document.patch.data]]

\* The violations validate recorded for the condition at position i.
ViolationsOf(i) ==
    { k \in 1..Len(templateField.violations) : templateField.violations[k].condition = i }

\* C21: each condition yields no violation when its expression evaluates to
\* true and exactly one otherwise; when evaluating it throws, that one
\* violation carries the exception in its error field.
C21_OneViolationPerCondition ==
    templateField.validated =>
        \A i \in 1..Len(templateField.outcomes) :
            /\ Cardinality(ViolationsOf(i)) =
                  IF templateField.outcomes[i] = "true" THEN 0 ELSE 1
            /\ templateField.outcomes[i] = "throws" =>
                  \A k \in ViolationsOf(i) : "error" \in templateField.violations[k].fields

\* The number of responses whose last byte has been delivered.
RECURSIVE Delivered(_, _)
Delivered(k, start) ==
    IF k > Len(stream.responses) THEN 0
    ELSE LET end == start + 2 + Len(stream.responses[k])
         IN  IF end <= stream.position THEN 1 + Delivered(k + 1, end) ELSE 0

\* C22: however the stream is cut into chunks, the parser has dispatched
\* exactly the messages whose last byte has arrived, each with its own
\* bytes, in stream order.
C22_DispatchesEachMessage ==
    stream.received = SubSeq(stream.responses, 1, Delivered(1, 0))

\* A socket of the states in which it is open, or on its way to being open
\* or closed.
OpenOrClosing == {"opening", "openingEnded", "open", "ended", "closing", "errored"}
CloseOrErrorOf(s) ==
    \/ Closed(s)
    \/ \E error \in SocketErrors : SocketError(s, error)

\* C23: a transport opens a socket only when none of its earlier sockets is
\* still open or closing, and a close or error event of an earlier socket
\* leaves the socket reference and the opened flag of a later socket alone.
C23_OneLiveSocket ==
    [][ /\ \A tp \in Transports :
              (nsock' = nsock + 1 /\ sockOwner'[nsock'] = tp) =>
                  \A s \in 1..nsock :
                      sockOwner[s] = tp => sockState[s] \notin OpenOrClosing
        /\ \A s \in Sockets :
              ( /\ CloseOrErrorOf(s)
                /\ socket[sockOwner[s]] \notin {NoSocket, s} ) =>
                  /\ socket'[sockOwner[s]] = socket[sockOwner[s]]
                  /\ opened'[sockOwner[s]] = opened[sockOwner[s]] ]_vars

Idle(tp) == Len(inbound[tp]) = 0 /\ Len(outbound[tp]) = 0

\* C24: when the deferred-close timer of a transport fires with a task in its
\* inbound map or its outbound queue, every socket stays as it is and the
\* timer is armed again; it closes the socket only when both are empty.
C24_ClosesOnlyWhenIdle ==
    [][ \A tp \in Transports :
          CloserFires(tp) =>
              IF Idle(tp)
              THEN /\ ~closer'[tp]
                   /\ \A s \in Sockets :
                        sockState'[s] # sockState[s] =>
                            /\ s = socket[tp]
                            /\ sockState'[s] \in {"openingEnded", "ended", "closing"}
              ELSE /\ sockState' = sockState
                   /\ socket' = socket
                   /\ closer'[tp] ]_vars

\* The timer of a transport that has written a request has fired and ended
\* the socket, with close() not called.
C24_Witness ==
    \E tp \in Transports :
        /\ timerOn
        /\ \E t \in Tasks : via[t] = tp /\ transmissions[t] > 0
        /\ ~closer[tp]
        /\ socket[tp] # NoSocket
        /\ sockState[socket[tp]] \in {"ended", "closing"}

\* C25: a transaction that read or write has begun is released exactly once
\* by the time the call is over, whatever f does and also when commit or
\* abort throws, and it is released before the returned promise settles.
C25_ReleasedExactlyOnce ==
    ( transaction.phase = "done" /\ transaction.begins ) =>
        /\ Len(transaction.releases) = 1
        /\ \A i \in 1..Len(transaction.releases) :
              transaction.releases[i].promise \in {"none", "pending"}

\* The 16-bit field at a byte offset of a buffer.
FieldAt(buffer, offset) == buffer[offset + 1] * 256 + buffer[offset + 2]
Sections(m) == m.questions \o m.answers \o m.authorities \o m.additionals
SentSigned == message.phase = "sent" /\ message.built.transactionSigner.present

\* C26: the frame the TCP transport writes for a signed message is the
\* 2-byte length prefix, the encoded message and then the TSIG record, with
\* ARCOUNT one more than the additional records and QDCOUNT, ANCOUNT and
\* NSCOUNT the sizes of their sections.
C26_SignedFrame ==
    SentSigned =>
        LET m == message.built
            frame == message.frame
            base == Len(message.written)
            tsig == writeRecord(sign(m.transactionSigner), FALSE, m.id)
        IN  /\ Len(frame) = 2 + base + Len(tsig)
            /\ FieldAt(frame, 0) = base + Len(tsig)
            /\ SubSeq(frame, 3, 6) = SubSeq(message.written, 1, 4)
            /\ FieldAt(frame, 2 + 4) = Len(m.questions)
            /\ FieldAt(frame, 2 + 6) = Len(m.answers)
            /\ FieldAt(frame, 2 + 8) = Len(m.authorities)
            /\ FieldAt(frame, 2 + 10) = Len(m.additionals) + 1
            /\ SubSeq(frame, 15, 2 + base) = SubSeq(message.written, 13, base)
            /\ SubSeq(frame, 3 + base, Len(frame)) = tsig

\* C27: length() of a message is the number of bytes write() emits, and for
\* each of its records the declared lengths are the numbers of bytes the
\* record and its rdata emit.
C27_LengthIsBytesWritten ==
    message.phase = "sent" =>
        LET m == message.built
        IN  /\ message.length = Len(message.written)
            /\ \A i \in 1..Len(Sections(m)) :
                  LET record == Sections(m)[i]
                      isQuestion == i <= Len(m.questions)
                  IN  /\ rdlength(record.rdata) = Len(writeData(record.rdata, m.id))
                      /\ recordLength(record, isQuestion)
                           = Len(writeRecord(record, isQuestion, m.id))

\* C28: build() returns a message with opcode UPDATE whose question section
\* is the zone record, whose answer section holds the prerequisites and
\* whose authority section holds the updates, with every flag that was not
\* set being zero, whether or not flags() was called.
C28_BuildsTheUpdate ==
    message.phase # "building" =>
        LET m == message.built
            asked == message.asked
        IN  /\ message.phase # "threw"
            /\ m.flags.opcode = OpCodeUPDATE
            /\ Len(asked.zone) > 0 =>
                  m.questions = << ResourceRecord(asked.zone[Len(asked.zone)],
                                                  TypeSOA, ClassIN, NoData) >>
            /\ m.answers = asked.prerequisites
            /\ m.authorities = asked.updates
            /\ flagsWord(m.flags) =
                  OpCodeUPDATE * 2048 + (IF asked.qr THEN 32768 ELSE 0)

\* ---------------------------------------------------------------- C29, C30
\* The task was resolved or rejected by a response, by the timeout scan, by a
\* socket error or by a TCP timeout.
SettledByTransport(t) ==
    \E i \in 1..Len(calls[t]) :
        calls[t][i] \in {"resolve", "RequestUnanswered", "Other"}

\* C29: once a task has been resolved or rejected (by a response, by the
\* timeout scan, by a socket error or by a TCP timeout) it is in neither the
\* inbound map nor the outbound queue of its transport, and its request is
\* never written to a socket again, also not after the socket closes and is
\* reopened.
C29_SettledTaskIsGone ==
    [][ \A t \in Tasks :
            /\ SettledByTransport(t)' => \A tp \in Transports : t \notin Queued(tp)'
            /\ SettledByTransport(t) => transmissions'[t] = transmissions[t] ]_vars

\* C30: a request is written only to a socket that has reported open and has
\* not yet been ended or closed: a task enqueued before the open event or
\* after the socket was ended stays in the outbound queue.
C30_WritesOnlyToOpenSocket ==
    [][ \A t \in Tasks :
            transmissions'[t] > transmissions[t] =>
                /\ socket'[via'[t]] # NoSocket
                /\ sockState'[socket'[via'[t]]] = "open" ]_vars


====
